---- MODULE Spec2Model ----
(***************************************************************************)
(* ResumeGuru review backend (src/server.js): the ATS scoring heuristic,   *)
(* the cleaning of the LLM reply, the prompt builder, the LLM client and   *)
(* the POST /api/review handler; and the payment routes of src/server.cjs: *)
(* POST /api/create-order and POST /webhook/phonepe.                       *)
(*                                                                         *)
(* A text is a sequence of one-character strings.  An optional value (a    *)
(* JSON field that may be missing, an environment variable that may be     *)
(* unset) is the empty tuple when missing and <<v>> when present.          *)
(* Request fields are texts, as the data model of the service declares.    *)
(***************************************************************************)
EXTENDS Integers, Sequences, FiniteSets, TLC

VARIABLES
  apiKey,     \* process.env.OPENROUTER_API_KEY: optional text
  pc,         \* per request: where its /api/review handler is suspended
  body,       \* per request: req.body as received, [resume, jd] optional texts
  atsScore,   \* per request: the handler's const atsScore (NoScore before line 213)
  scoreCalls, \* per request: calls of calculateATSMatchScore made so far
  llmCalls,   \* per request: outbound fetch() requests issued so far
  llmReply,   \* per request: what the LLM endpoint answered to its fetch()
  aiReviewRaw,\* per request: the handler's const aiReviewRaw (optional text)
  response,   \* per request: the HTTP response sent (NoResponse before)
  prompt,     \* per request: what buildImprovedPrompt returned (NoPrompt before)
  sent,       \* per request: HTTP responses written so far
  payEnv,     \* PHONEPE_MERCHANT_ID, PHONEPE_SALT_KEY, PHONEPE_BASE_URL: optional texts
  ordPc,      \* where the /api/create-order handler is suspended
  ordBody,    \* req.body of the order request: [amount, orderId] optional
  ordRequest, \* the axios.post issued to the gateway (NoRequest before)
  gatewayCalls, \* outbound gateway requests issued so far
  gatewayReply, \* what the gateway answered (NoReply before)
  ordResponse,\* the HTTP response of the order request (NoResponse before)
  ordSent,    \* HTTP responses written to the order request so far
  webhooks,   \* the /webhook/phonepe callbacks handled so far, in order
  fnArgs,     \* unit application of a pure function: its arguments
  fnResult,   \* unit application of a pure function: its result (optional)
  fnTrace     \* unit application of calculateATSMatchScore: the values of `score`

vars == <<apiKey, pc, body, atsScore, scoreCalls, llmCalls, llmReply, aiReviewRaw,
          response, prompt, sent, payEnv, ordPc, ordBody, ordRequest, gatewayCalls,
          gatewayReply, ordResponse, ordSent, webhooks, fnArgs, fnResult, fnTrace>>

reviewVars == <<apiKey, pc, body, atsScore, scoreCalls, llmCalls, llmReply,
                aiReviewRaw, response, prompt, sent>>

orderVars == <<ordPc, ordBody, ordRequest, gatewayCalls, gatewayReply, ordResponse,
               ordSent>>

payVars == <<payEnv, orderVars, webhooks>>

fnVars == <<fnArgs, fnResult, fnTrace>>

----------------------------------------------------------------------------
(* Characters and JavaScript string primitives *)

LowerAlpha == <<"a", "b", "c", "d", "e", "f", "g", "h", "i", "j", "k", "l", "m",
                "n", "o", "p", "q", "r", "s", "t", "u", "v", "w", "x", "y", "z">>

UpperAlpha == <<"A", "B", "C", "D", "E", "F", "G", "H", "I", "J", "K", "L", "M",
                "N", "O", "P", "Q", "R", "S", "T", "U", "V", "W", "X", "Y", "Z">>

DigitChars == {"0", "1", "2", "3", "4", "5", "6", "7", "8", "9"}

LowerSet == {LowerAlpha[i] : i \in 1..26}

UpperSet == {UpperAlpha[i] : i \in 1..26}

\* JavaScript's white space as String.prototype.trim sees it, within the alphabet.
WhiteSpace == {" ", "\n", "\t"}

\* The regular expression class \w
IsWordChar(c) == c \in LowerSet \/ c \in UpperSet \/ c \in DigitChars \/ c = "_"

\* The character of code 96, which no TLA+ string literal can hold
Backtick == "GRAVE"

Absent == <<>>

Given(t) == <<t>>

\* The element of a one-element set; {f(v) : v \in {e}} computes e once.
TheOne(S) == CHOOSE v \in S : TRUE

Min(a, b) == IF a < b THEN a ELSE b

\* s.repeat cut to len characters: the filler of generated texts
Cyc(unit, len) == [i \in 1..len |-> unit[((i - 1) % Len(unit)) + 1]]

RECURSIVE Concat(_)
Concat(texts) == IF texts = <<>> THEN <<>> ELSE Head(texts) \o Concat(Tail(texts))

LowerOf == [c \in UpperSet |-> LowerAlpha[CHOOSE i \in 1..26 : UpperAlpha[i] = c]]

\* String.prototype.toLowerCase
toLowerCase(s) == [i \in 1..Len(s) |-> IF s[i] \in UpperSet THEN LowerOf[s[i]] ELSE s[i]]

\* String.prototype.includes
includes(s, p) ==
  \E i \in 0..(Len(s) - Len(p)) : \A k \in 1..Len(p) : s[i + k] = p[k]

\* String.prototype.trim
trim(s) ==
  IF \A i \in 1..Len(s) : s[i] \in WhiteSpace THEN <<>>
  ELSE SubSeq(s,
              CHOOSE i \in 1..Len(s) :
                s[i] \notin WhiteSpace /\ \A j \in 1..(i - 1) : s[j] \in WhiteSpace,
              CHOOSE i \in 1..Len(s) :
                s[i] \notin WhiteSpace /\ \A j \in (i + 1)..Len(s) : s[j] \in WhiteSpace)

\* The rational n/d rounded down
MathRound_down(n, d) == n \div d

\* Math.round of the rational n/d (n >= 0, d > 0): half rounds up
MathRound(n, d) == (2 * n + d) \div (2 * d)

----------------------------------------------------------------------------
(* calculateATSMatchScore, src/server.js:24-61 *)

\* (resume.match(/\b\w+\b/g) || []).length: one match per maximal run of \w
wordCount(resume) ==
  Cardinality({i \in 1..Len(resume) :
                 IsWordChar(resume[i]) /\ (i = 1 \/ ~IsWordChar(resume[i - 1]))})

LowBand == 250

HighBand == 700

MaxKeywords == 25

actionVerbs == <<
  <<"m", "a", "n", "a", "g", "e", "d">>,
  <<"l", "e", "d">>,
  <<"d", "e", "v", "e", "l", "o", "p", "e", "d">>,
  <<"c", "r", "e", "a", "t", "e", "d">>,
  <<"i", "m", "p", "l", "e", "m", "e", "n", "t", "e", "d">>,
  <<"a", "c", "h", "i", "e", "v", "e", "d">>,
  <<"i", "n", "c", "r", "e", "a", "s", "e", "d">>,
  <<"r", "e", "d", "u", "c", "e", "d">>,
  <<"n", "e", "g", "o", "t", "i", "a", "t", "e", "d">>,
  <<"l", "a", "u", "n", "c", "h", "e", "d">> >>

kwExperience == <<"e", "x", "p", "e", "r", "i", "e", "n", "c", "e">>

kwEducation == <<"e", "d", "u", "c", "a", "t", "i", "o", "n">>

kwSkill == <<"s", "k", "i", "l", "l">>

\* The end of the maximal run of \w characters that starts at i
WordEnd(s, i) ==
  CHOOSE j \in i..Len(s) :
    /\ \A k \in i..j : IsWordChar(s[k])
    /\ (j = Len(s) \/ ~IsWordChar(s[j + 1]))

\* The positions 1..Len(s), in order
Indices(s) == [i \in 1..Len(s) |-> i]

\* The pattern without its word boundaries, /[a-z]{4,}/g: every maximal run
\* of at least four letters a-z, whatever stands next to it
matchKeywords_letterRuns(s) ==
  LET runEnd(i) == CHOOSE j \in i..Len(s) :
                     /\ \A k \in i..j : s[k] \in LowerSet
                     /\ (j = Len(s) \/ s[j + 1] \notin LowerSet)
      starts == SelectSeq(Indices(s), LAMBDA i :
                  /\ s[i] \in LowerSet
                  /\ (i = 1 \/ s[i - 1] \notin LowerSet)
                  /\ runEnd(i) - i + 1 >= 4)
  IN [n \in 1..Len(starts) |-> SubSeq(s, starts[n], runEnd(starts[n]))]

\* s.match(/\b[a-z]{4,}\b/g) || [].  Both ends of a match are word
\* boundaries, so a match is a whole run of \w characters, all of them in
\* a-z, at least four of them; the matches come in the order of the text.
matchKeywords(s) ==
  LET starts == SelectSeq(Indices(s), LAMBDA i :
                  /\ IsWordChar(s[i])
                  /\ (i = 1 \/ ~IsWordChar(s[i - 1]))
                  /\ WordEnd(s, i) - i + 1 >= 4
                  /\ \A k \in i..WordEnd(s, i) : s[k] \in LowerSet)
  IN [n \in 1..Len(starts) |-> SubSeq(s, starts[n], WordEnd(s, starts[n]))]

\* [...new Set(arr)]: the first occurrence of each element, in order
setOrder(arr) ==
  LET firsts == SelectSeq(Indices(arr), LAMBDA i : \A j \in 1..(i - 1) : arr[j] # arr[i])
  IN [n \in 1..Len(firsts) |-> arr[firsts[n]]]

\* Array.prototype.slice(0, n)
slice0(arr, n) == SubSeq(arr, 1, Min(n, Len(arr)))

jdKeywords(jd) == slice0(setOrder(matchKeywords(toLowerCase(jd))), MaxKeywords)

\* The first band edge taken with <= : 250 words still count as too few
wordCountScore_lowEdge(wc) ==
  IF wc <= LowBand THEN 5
  ELSE IF wc <= HighBand THEN 20
  ELSE 10

\* The second band edge taken with < : 700 words already count as too many
wordCountScore_highEdge(wc) ==
  IF wc < LowBand THEN 5
  ELSE IF wc < HighBand THEN 20
  ELSE 10

\* 1. Word Count Score: what lines 30-36 add to score
wordCountScore(wc) ==
  IF wc < LowBand THEN 5
  ELSE IF wc <= HighBand THEN 20
  ELSE 10

\* "skills" rewarded on top of "skill"
sectionScore_skillTwice(resumeLower) ==
    (IF includes(resumeLower, kwExperience) THEN 10 ELSE 0)
  + (IF includes(resumeLower, kwEducation) THEN 5 ELSE 0)
  + (IF includes(resumeLower, kwSkill) THEN 10 ELSE 0)
  + (IF includes(resumeLower, kwSkill \o <<"s">>) THEN 10 ELSE 0)

\* 2. Section Score: what lines 39-41 add to score
sectionScore(resumeLower) ==
    (IF includes(resumeLower, kwExperience) THEN 10 ELSE 0)
  + (IF includes(resumeLower, kwEducation) THEN 5 ELSE 0)
  + (IF includes(resumeLower, kwSkill) THEN 10 ELSE 0)

\* Every occurrence of a verb counted, not every verb that occurs
actionVerbCount_occurrences(resumeLower) ==
  Cardinality({vp \in (1..Len(actionVerbs)) \X (0..Len(resumeLower)) :
                 LET verb == actionVerbs[vp[1]]
                 IN /\ vp[2] + Len(verb) <= Len(resumeLower)
                    /\ \A k \in 1..Len(verb) : resumeLower[vp[2] + k] = verb[k]})

\* actionVerbs.filter(verb => resumeLower.includes(verb)).length
actionVerbCount(resumeLower) ==
  Len(SelectSeq(actionVerbs, LAMBDA verb : includes(resumeLower, verb)))

\* 3. Action Verb Score: what line 46 adds to score, in half points
\* (Math.min(actionVerbCount, 10) * 1.5)
actionVerbScore2(resumeLower) == Min(actionVerbCount(resumeLower), 10) * 3

\* Math.floor in place of Math.round
jdScore_floor(resumeLower, jd) ==
  IF jd # <<>>
  THEN LET keywords == jdKeywords(jd)
       IN IF Len(keywords) > 0
          THEN LET hits == Len(SelectSeq(keywords, LAMBDA k : includes(resumeLower, k)))
               IN (hits * 20) \div Len(keywords)
          ELSE 0
  ELSE 10

\* The flat 10 given also to a job description without any keyword
jdScore_flatDefault(resumeLower, jd) ==
  LET keywords == jdKeywords(jd)
  IN IF Len(keywords) > 0
     THEN LET hits == Len(SelectSeq(keywords, LAMBDA k : includes(resumeLower, k)))
          IN MathRound(hits * 20, Len(keywords))
     ELSE 10

\* 4. Job Description Keyword Matching: what lines 49-58 add to score
jdScore(resumeLower, jd) ==
  IF jd # <<>>
  THEN LET keywords == jdKeywords(jd)
       IN IF Len(keywords) > 0
          THEN LET hits == Len(SelectSeq(keywords, LAMBDA k : includes(resumeLower, k)))
               IN MathRound(hits * 20, Len(keywords))
          ELSE 0
  ELSE 10

\* The values of the local variable `score` after each numbered step of the
\* function, in half points (step 3 adds multiples of 1.5).
scoreSteps(resume, jd) ==
  LET resumeLower == toLowerCase(resume)
      base == 2 * 20
      s1 == base + 2 * wordCountScore(wordCount(resume))
      s2 == s1 + 2 * sectionScore(resumeLower)
      s3 == s2 + actionVerbScore2(resumeLower)
      s4 == s3 + 2 * jdScore(resumeLower, jd)
  IN [base |-> base, words |-> s1, sections |-> s2, verbs |-> s3, jd |-> s4]

\* The clamp dropped and the total rescaled to 80 attainable points
finalScore_rescaled(score2) == MathRound(score2 * 100, 2 * 80)

\* return Math.min(100, Math.round(score))
finalScore(score2) == Min(100, MathRound(score2, 2))

calculateATSMatchScore(resume, jd) == finalScore(scoreSteps(resume, jd).jd)

----------------------------------------------------------------------------
(* cleanAIResponse, src/server.js:68-71 *)

Separator == <<"-", "-", "-">>

\* The regular expression without its g flag: only the first match goes
removeSeparators_first(text) ==
  LET starts == {i \in 1..(Len(text) - 2) : SubSeq(text, i, i + 2) = Separator}
  IN IF starts = {} THEN text
     ELSE LET i == CHOOSE a \in starts : \A b \in starts : a <= b
          IN SubSeq(text, 1, i - 1) \o SubSeq(text, i + 3, Len(text))

\* text.replace(/---/g, ""): matches are found left to right and do not
\* overlap, so a run of dashes that starts at position a is matched three
\* dashes at a time from a on, and the dashes left over at its end stay.
removeSeparators(text) ==
  LET isDash(i) == text[i] = "-"
      runStart(i) == CHOOSE a \in 1..i :
                       (\A k \in a..i : isDash(k)) /\ (a = 1 \/ ~isDash(a - 1))
      runEnd(i) == CHOOSE b \in i..Len(text) :
                     (\A k \in i..b : isDash(k)) /\ (b = Len(text) \/ ~isDash(b + 1))
      matched(i) == isDash(i) /\
                    (i - runStart(i)) < 3 * ((runEnd(i) - runStart(i) + 1) \div 3)
  IN TheOne({[n \in 1..Len(kept) |-> text[kept[n]]] :
               kept \in {SelectSeq(Indices(text), LAMBDA i : ~matched(i))}})

cleanAIResponse(text) == TheOne({trim(t) : t \in {removeSeparators(text)}})

----------------------------------------------------------------------------
(* buildImprovedPrompt, src/server.js:80-150 *)

\* Lines 81-138: a template literal without any ${...}, hence the same text
\* in every call.  It is named here by its opening words.
systemPrompt == "You are \"Resume Guru,\" an expert senior recruiter ..."

promptOpening ==
  <<"P", "l", "e", "a", "s", "e", " ", "r", "e", "v", "i", "e", "w", " ",
    "t", "h", "e", " ", "f", "o", "l", "l", "o", "w", "i", "n", "g", " ",
    "r", "e", "s", "u", "m", "e">>

jdPhrase ==
  <<" ", "a", "g", "a", "i", "n", "s", "t", " ", "t", "h", "e", " ", "p",
    "r", "o", "v", "i", "d", "e", "d", " ", "j", "o", "b", " ", "d", "e",
    "s", "c", "r", "i", "p", "t", "i", "o", "n">>

resumeOpening ==
  <<".", "\n", "\n", "*", "*", "R", "e", "s", "u", "m", "e", ":", "*", "*",
    "\n", Backtick, Backtick, Backtick, "\n">>

resumeClosing ==
  <<"\n", Backtick, Backtick, Backtick, "\n", "\n">>

jdOpening ==
  <<"*", "*", "J", "o", "b", " ", "D", "e", "s", "c", "r", "i", "p", "t",
    "i", "o", "n", ":", "*", "*", "\n", Backtick, Backtick, Backtick, "\n">>

fenceClosing ==
  <<"\n", Backtick, Backtick, Backtick>>

\* The job-description block emitted whether or not there is one
userContent_alwaysJd(resume, jd) ==
  promptOpening \o (IF jd # <<>> THEN jdPhrase ELSE <<>>) \o resumeOpening
    \o resume \o resumeClosing \o jdOpening \o jd \o fenceClosing

\* Lines 140-147: `jd ? ... : ""` takes the empty text as false.
userContent(resume, jd) ==
  promptOpening \o (IF jd # <<>> THEN jdPhrase ELSE <<>>) \o resumeOpening
    \o resume \o resumeClosing
    \o (IF jd # <<>> THEN jdOpening \o jd \o fenceClosing ELSE <<>>)

buildImprovedPrompt(resume, jd) ==
  [systemPrompt |-> systemPrompt, userContent |-> userContent(resume, jd)]

----------------------------------------------------------------------------
(* callAI, src/server.js:158-202 *)

FALLBACK ==
  <<"I", "'", "m", " ", "s", "o", "r", "r", "y", ",", " ", "b", "u", "t", " ", "I",
    " ", "e", "n", "c", "o", "u", "n", "t", "e", "r", "e", "d", " ", "a", "n", " ",
    "e", "r", "r", "o", "r", " ", "w", "h", "i", "l", "e", " ", "r", "e", "v", "i",
    "e", "w", "i", "n", "g", " ", "t", "h", "e", " ", "r", "e", "s", "u", "m", "e",
    ".", " ", "P", "l", "e", "a", "s", "e", " ", "t", "r", "y", " ", "a", "g", "a",
    "i", "n", " ", "i", "n", " ", "a", " ", "m", "o", "m", "e", "n", "t", ".">>

MinContentLength == 50

MinResumeLength == 50

\* !x for an optional text: undefined and "" are falsy
falsy(x) == x = Absent \/ x[1] = <<>>

\* x?.trim()
optTrim(x) == IF x = Absent THEN Absent ELSE Given(trim(x[1]))

\* Lines 160-161: whether callAI throws before any request is made
missingApiKey(key) == falsy(optTrim(key))

\* The content checked and returned without the trim of line 190
contentOrFallback_untrimmed(data) ==
  IF falsy(data) \/ Len(data[1]) < MinContentLength
  THEN FALLBACK
  ELSE data[1]

\* Lines 189-196, after response.json() resolved with `data`: the value callAI
\* returns.  `data` stands for data?.choices?.[0]?.message?.content, an
\* optional text; the throw of line 193 is caught at line 197.
contentOrFallback(data) ==
  LET content == optTrim(data)
  IN IF falsy(content) \/ Len(content[1]) < MinContentLength
     THEN FALLBACK
     ELSE content[1]

----------------------------------------------------------------------------
(* app.post("/api/review"), src/server.js:206-222 *)

Reqs == {"r1", "r2"}

NoResponse == [status |-> 0]

NoReply == [kind |-> "none"]

NoPrompt == [systemPrompt |-> "", userContent |-> <<>>]

\* The length taken of the untrimmed resume
resumeRejected_untrimmed(resume) ==
  falsy(resume) \/ Len(resume[1]) < MinResumeLength

\* Line 209: !resume || resume.trim().length < 50
resumeRejected(resume) ==
  falsy(resume) \/ Len(trim(resume[1])) < MinResumeLength

\* jd || ""
orEmpty(jd) == IF falsy(jd) THEN <<>> ELSE jd[1]

badRequest ==
  [status |-> 400, ok |-> FALSE, error |-> "Resume is missing or too short."]

\* Lines 216-218: the response built from callAI's return value
reviewResponse(score, raw) ==
  [status |-> 200, ok |-> TRUE, atsScore |-> score, aiReview |-> cleanAIResponse(raw)]

\* The score kept in one place for all requests: the response carries the
\* score computed last.
Respond_shared(r, raw) ==
  LET q == CHOOSE q \in Reqs : q # r
      score == IF atsScore[q] # Absent THEN atsScore[q][1] ELSE atsScore[r][1]
  IN /\ aiReviewRaw' = [aiReviewRaw EXCEPT ![r] = Given(raw)]
     /\ response' = [response EXCEPT ![r] = reviewResponse(score, raw)]
     /\ sent' = [sent EXCEPT ![r] = @ + 1]
     /\ pc' = [pc EXCEPT ![r] = "done"]

\* The handler resumes after `await callAI(...)` with callAI's return value.
Respond(r, raw) ==
  /\ aiReviewRaw' = [aiReviewRaw EXCEPT ![r] = Given(raw)]
  /\ response' = [response EXCEPT ![r] = reviewResponse(atsScore[r][1], raw)]
  /\ sent' = [sent EXCEPT ![r] = @ + 1]
  /\ pc' = [pc EXCEPT ![r] = "done"]

\* A request arrives and its handler runs to its first suspension: it rejects
\* the request (line 210), or scores the resume and enters callAI, which
\* returns the fallback at once without a credential and otherwise issues
\* the one fetch() of line 163.
Receive(r, b) ==
  /\ pc[r] = "idle"
  /\ body' = [body EXCEPT ![r] = b]
  /\ UNCHANGED <<apiKey, llmReply, fnVars, payVars>>
  /\ IF resumeRejected(b.resume)
     THEN /\ response' = [response EXCEPT ![r] = badRequest]
          /\ sent' = [sent EXCEPT ![r] = @ + 1]
          /\ pc' = [pc EXCEPT ![r] = "done"]
          /\ UNCHANGED <<atsScore, scoreCalls, llmCalls, aiReviewRaw, prompt>>
     ELSE LET score == calculateATSMatchScore(b.resume[1], orEmpty(b.jd))
          IN /\ atsScore' = [atsScore EXCEPT ![r] = Given(score)]
             /\ scoreCalls' = [scoreCalls EXCEPT ![r] = @ + 1]
             /\ prompt' = [prompt EXCEPT
                             ![r] = buildImprovedPrompt(b.resume[1], orEmpty(b.jd))]
             /\ IF missingApiKey(apiKey)
                THEN /\ aiReviewRaw' = [aiReviewRaw EXCEPT ![r] = Given(FALLBACK)]
                     /\ response' = [response EXCEPT ![r] = reviewResponse(score, FALLBACK)]
                     /\ sent' = [sent EXCEPT ![r] = @ + 1]
                     /\ pc' = [pc EXCEPT ![r] = "done"]
                     /\ UNCHANGED llmCalls
                ELSE /\ llmCalls' = [llmCalls EXCEPT ![r] = @ + 1]
                     /\ pc' = [pc EXCEPT ![r] = "fetch"]
                     /\ UNCHANGED <<aiReviewRaw, response, sent>>

\* A rejected fetch() tried once more before giving up
FetchReject_retry(r) ==
  /\ pc[r] = "fetch"
  /\ UNCHANGED <<apiKey, body, atsScore, scoreCalls, prompt, fnVars, payVars>>
  /\ IF llmCalls[r] < 2
     THEN /\ llmCalls' = [llmCalls EXCEPT ![r] = @ + 1]
          /\ UNCHANGED <<pc, llmReply, aiReviewRaw, response, sent>>
     ELSE /\ llmReply' = [llmReply EXCEPT ![r] = [kind |-> "rejected"]]
          /\ Respond(r, FALLBACK)
          /\ UNCHANGED llmCalls

\* fetch() rejects (transport error): caught at line 197.
FetchReject(r) ==
  /\ pc[r] = "fetch"
  /\ llmReply' = [llmReply EXCEPT ![r] = [kind |-> "rejected"]]
  /\ Respond(r, FALLBACK)
  /\ UNCHANGED <<apiKey, body, atsScore, scoreCalls, llmCalls, prompt, fnVars, payVars>>

\* fetch() resolves with the status line; the handler suspends again reading
\* the body, at line 184 (!response.ok) or at line 189.
FetchResolve(r, ok) ==
  /\ pc[r] = "fetch"
  /\ pc' = [pc EXCEPT ![r] = IF ok THEN "json" ELSE "errorJson"]
  /\ UNCHANGED <<apiKey, body, atsScore, scoreCalls, llmCalls, llmReply, aiReviewRaw,
                 response, prompt, sent, fnVars, payVars>>

\* Lines 184-186: the error body is read (or fails to parse); either way
\* callAI throws and line 197 catches.
ErrorJsonSettle(r) ==
  /\ pc[r] = "errorJson"
  /\ llmReply' = [llmReply EXCEPT ![r] = [kind |-> "httpError"]]
  /\ Respond(r, FALLBACK)
  /\ UNCHANGED <<apiKey, body, atsScore, scoreCalls, llmCalls, prompt, fnVars, payVars>>

\* Line 189: response.json() rejects on an unparsable body.
JsonReject(r) ==
  /\ pc[r] = "json"
  /\ llmReply' = [llmReply EXCEPT ![r] = [kind |-> "unparsable"]]
  /\ Respond(r, FALLBACK)
  /\ UNCHANGED <<apiKey, body, atsScore, scoreCalls, llmCalls, prompt, fnVars, payVars>>

\* Line 189: response.json() resolves; lines 190-196 and 216-218 follow.
JsonResolve(r, data) ==
  /\ pc[r] = "json"
  /\ llmReply' = [llmReply EXCEPT ![r] = [kind |-> "json", data |-> data]]
  /\ Respond(r, contentOrFallback(data))
  /\ UNCHANGED <<apiKey, body, atsScore, scoreCalls, llmCalls, prompt, fnVars, payVars>>

----------------------------------------------------------------------------
(* JSON.stringify, Buffer.from(..).toString("base64") and crypto's SHA-256, *)
(* as src/server.cjs:158-165 uses them                                      *)

\* The printable ASCII characters in code order, from code 32
AsciiPrintable ==
  <<" ", "!", "\"", "#", "$", "%", "&", "'", "(", ")", "*", "+", ",", "-",
    ".", "/", "0", "1", "2", "3", "4", "5", "6", "7", "8", "9", ":", ";",
    "<", "=", ">", "?", "@", "A", "B", "C", "D", "E", "F", "G", "H", "I",
    "J", "K", "L", "M", "N", "O", "P", "Q", "R", "S", "T", "U", "V", "W",
    "X", "Y", "Z", "[", "\\", "]", "^", "_", Backtick, "a", "b", "c", "d", "e",
    "f", "g", "h", "i", "j", "k", "l", "m", "n", "o", "p", "q", "r", "s",
    "t", "u", "v", "w", "x", "y", "z", "{", "|", "}", "~">>

FirstCode == 32

charCodeAt ==
  [c \in {AsciiPrintable[i] : i \in DOMAIN AsciiPrintable} |->
     FirstCode - 1 + CHOOSE i \in DOMAIN AsciiPrintable : AsciiPrintable[i] = c]

\* Buffer.from(str): the UTF-8 bytes, one per ASCII character
bufferFrom(str) == [i \in 1..Len(str) |-> charCodeAt[str[i]]]

Base64Alphabet ==
  <<"A", "B", "C", "D", "E", "F", "G", "H", "I", "J", "K", "L", "M", "N",
    "O", "P", "Q", "R", "S", "T", "U", "V", "W", "X", "Y", "Z", "a", "b",
    "c", "d", "e", "f", "g", "h", "i", "j", "k", "l", "m", "n", "o", "p",
    "q", "r", "s", "t", "u", "v", "w", "x", "y", "z", "0", "1", "2", "3",
    "4", "5", "6", "7", "8", "9", "+", "/">>

\* buf.toString("base64"): each group of three bytes becomes four characters
\* of six bits; an incomplete last group is padded with "=".
toBase64(buf) ==
  LET n == Len(buf)
      byte(i) == IF i <= n THEN buf[i] ELSE 0
      char(i) ==
        LET g == (i - 1) \div 4
            k == (i - 1) % 4
            v == byte(3 * g + 1) * 65536 + byte(3 * g + 2) * 256 + byte(3 * g + 3)
        IN IF 3 * g + k > n
           THEN "="
           ELSE Base64Alphabet[((v \div (64 ^ (3 - k))) % 64) + 1]
  IN [i \in 1..(4 * ((n + 2) \div 3)) |-> char(i)]

Digits == <<"0", "1", "2", "3", "4", "5", "6", "7", "8", "9">>

\* String(n) of an integer
RECURSIVE numberText(_)
numberText(n) ==
  IF n < 0 THEN <<"-">> \o numberText(0 - n)
  ELSE IF n < 10 THEN <<Digits[n + 1]>>
  ELSE numberText(n \div 10) \o <<Digits[(n % 10) + 1]>>

\* JavaScript values: a string, a number, NaN, undefined, or an object given
\* by its members in insertion order.
jsString(t) == [t |-> "string", v |-> t]

jsNumber(n) == [t |-> "number", v |-> n]

jsNaN == [t |-> "NaN", v |-> 0]

jsUndefined == [t |-> "undefined", v |-> 0]

jsObject(members) == [t |-> "object", v |-> members]

\* An optional text as the JavaScript value it is
jsOf(x) == IF x = Absent THEN jsUndefined ELSE jsString(x[1])

\* String concatenation with a value that may be undefined
concatString(x) ==
  IF x = Absent THEN <<"u", "n", "d", "e", "f", "i", "n", "e", "d">> ELSE x[1]

\* JSON.stringify of a string: quoted, with quote and backslash escaped
quoteJSON(t) ==
  <<"\"">> \o Concat([i \in 1..Len(t) |->
                       IF t[i] \in {"\"", "\\"} THEN <<"\\", t[i]>> ELSE <<t[i]>>])
          \o <<"\"">>

\* JSON.stringify: members whose value is undefined are left out, NaN is
\* written null.
RECURSIVE stringifyJSON(_)
stringifyJSON(x) ==
  CASE x.t = "string" -> quoteJSON(x.v)
    [] x.t = "number" -> numberText(x.v)
    [] x.t = "NaN" -> <<"n", "u", "l", "l">>
    [] x.t = "object" ->
         LET kept == SelectSeq(x.v, LAMBDA m : m[2].t # "undefined")
             member(i) == (IF i > 1 THEN <<",">> ELSE <<>>)
                            \o quoteJSON(kept[i][1]) \o <<":">>
                            \o stringifyJSON(kept[i][2])
         IN <<"{">> \o Concat([i \in 1..Len(kept) |-> member(i)]) \o <<"}">>

\* crypto.createHash("sha256").update(text).digest("hex"): the digest is
\* kept as a term naming the text it was computed from.
sha256hex(text) == [sha256hex |-> text]

----------------------------------------------------------------------------
(* app.post("/api/create-order"), src/server.cjs:144-184 *)

kMerchantId ==
  <<"m", "e", "r", "c", "h", "a", "n", "t", "I", "d">>

kMerchantTransactionId ==
  <<"m", "e", "r", "c", "h", "a", "n", "t", "T", "r", "a", "n", "s", "a",
    "c", "t", "i", "o", "n", "I", "d">>

kAmount ==
  <<"a", "m", "o", "u", "n", "t">>

kRedirectUrl ==
  <<"r", "e", "d", "i", "r", "e", "c", "t", "U", "r", "l">>

kRedirectMode ==
  <<"r", "e", "d", "i", "r", "e", "c", "t", "M", "o", "d", "e">>

kCallbackUrl ==
  <<"c", "a", "l", "l", "b", "a", "c", "k", "U", "r", "l">>

kPaymentInstrument ==
  <<"p", "a", "y", "m", "e", "n", "t", "I", "n", "s", "t", "r", "u", "m",
    "e", "n", "t">>

kType ==
  <<"t", "y", "p", "e">>

redirectUrl ==
  <<"h", "t", "t", "p", "s", ":", "/", "/", "r", "e", "s", "u", "m", "e",
    "g", "u", "r", "u", ".", "o", "n", "r", "e", "n", "d", "e", "r", ".",
    "c", "o", "m", "/", "p", "a", "y", "m", "e", "n", "t", "-", "s", "t",
    "a", "t", "u", "s">>

redirectMode ==
  <<"P", "O", "S", "T">>

callbackUrl ==
  <<"h", "t", "t", "p", "s", ":", "/", "/", "r", "e", "s", "u", "m", "e",
    "g", "u", "r", "u", ".", "o", "n", "r", "e", "n", "d", "e", "r", ".",
    "c", "o", "m", "/", "w", "e", "b", "h", "o", "o", "k", "/", "p", "h",
    "o", "n", "e", "p", "e">>

payPage ==
  <<"P", "A", "Y", "_", "P", "A", "G", "E">>

endpoint ==
  <<"/", "p", "g", "/", "v", "1", "/", "p", "a", "y">>

PaiseFactor == 100

NoRequest == [url |-> <<>>]

\* The amount passed on as received
amountUntimed(amount) ==
  IF amount = Absent THEN jsNaN ELSE jsNumber(amount[1])

\* Line 151: amount * 100; undefined * 100 is NaN.
amountTimes100(amount) ==
  IF amount = Absent THEN jsNaN ELSE jsNumber(amount[1] * PaiseFactor)

\* Lines 148-156
payload(b, env) ==
  jsObject(<< <<kMerchantId, jsOf(env.merchantId)>>,
              <<kMerchantTransactionId, jsOf(b.orderId)>>,
              <<kAmount, amountTimes100(b.amount)>>,
              <<kRedirectUrl, jsString(redirectUrl)>>,
              <<kRedirectMode, jsString(redirectMode)>>,
              <<kCallbackUrl, jsString(callbackUrl)>>,
              <<kPaymentInstrument, jsObject(<< <<kType, jsString(payPage)>> >>)>> >>)

\* Lines 158-159
base64Payload(b, env) == toBase64(bufferFrom(stringifyJSON(payload(b, env))))

\* Lines 162-165: hex digest + "###" + 1
xVerify(b, env) ==
  [digest |-> sha256hex(base64Payload(b, env) \o endpoint \o concatString(env.saltKey)),
   suffix |-> <<"#", "#", "#">> \o numberText(1)]

\* Lines 167-177: the one axios.post
gatewayRequest(b, env) ==
  [url |-> concatString(env.baseUrl) \o endpoint,
   data |-> [request |-> base64Payload(b, env)],
   headers |-> [contentType |-> "application/json",
                xVerify |-> xVerify(b, env),
                xMerchantId |-> env.merchantId]]

\* Line 182
orderFailed == [status |-> 500, json |-> "{\"error\":\"Order create failed\"}"]

\* The gateway's error body passed on to the caller
orderError_passOn(err) ==
  IF err.kind = "httpError" THEN [status |-> 500, json |-> err.data] ELSE orderFailed

\* Lines 180-183: the error is logged and the fixed body is sent.
orderError(err) == orderFailed

\* The request arrives; the handler runs to `await axios.post(...)`.
OrderReceive(b) ==
  /\ ordPc = "idle"
  /\ ordBody' = b
  /\ ordRequest' = gatewayRequest(b, payEnv)
  /\ gatewayCalls' = gatewayCalls + 1
  /\ ordPc' = "post"
  /\ UNCHANGED <<gatewayReply, ordResponse, ordSent, payEnv, webhooks, reviewVars, fnVars>>

\* axios.post resolves (a 2xx answer): line 179 sends response.data.
GatewayResolve(data) ==
  /\ ordPc = "post"
  /\ payEnv.baseUrl # Absent
  /\ gatewayReply' = [kind |-> "ok", data |-> data]
  /\ ordResponse' = [status |-> 200, json |-> data]
  /\ ordSent' = ordSent + 1
  /\ ordPc' = "done"
  /\ UNCHANGED <<ordBody, ordRequest, gatewayCalls, payEnv, webhooks, reviewVars, fnVars>>

\* axios.post rejects, on a non-2xx answer or a transport error; without a
\* base URL no answer can arrive.  Line 180 catches.
GatewayReject(err) ==
  /\ ordPc = "post"
  /\ err.kind = "httpError" => payEnv.baseUrl # Absent
  /\ gatewayReply' = err
  /\ ordResponse' = orderError(err)
  /\ ordSent' = ordSent + 1
  /\ ordPc' = "done"
  /\ UNCHANGED <<ordBody, ordRequest, gatewayCalls, payEnv, webhooks, reviewVars, fnVars>>

----------------------------------------------------------------------------
(* app.post("/webhook/phonepe"), src/server.cjs:187-203 *)

MaxCallbacks == 2

\* Line 191: req.body?.code === "PAYMENT_SUCCESS" || req.body?.success
paymentSucceeded(b) ==
  b # Absent /\ (b[1].code = Given("PAYMENT_SUCCESS") \/ b[1].success = Given(TRUE))

webhookOk == [status |-> 200, text |-> "OK"]

webhookFail == [status |-> 500, text |-> "FAIL"]

\* A callback that does not report success answered as a failure
webhookResponses_failStatus(b, threw) ==
  IF threw \/ ~paymentSucceeded(b) THEN <<webhookFail>> ELSE <<webhookOk>>

\* The responses the handler writes: line 198 after either branch, line 201
\* when a statement of the try block threw before it.
webhookResponses(b, threw) ==
  IF threw THEN <<webhookFail>> ELSE <<webhookOk>>

\* A callback is handled in one run of the synchronous handler.  `threw`
\* stands for console.log (lines 189-195, writing to the process's output)
\* failing.
Webhook(b, threw) ==
  /\ Len(webhooks) < MaxCallbacks
  /\ webhooks' = Append(webhooks,
                        [body |-> b, threw |-> threw,
                         unlock |-> ~threw /\ paymentSucceeded(b),
                         responses |-> webhookResponses(b, threw)])
  /\ UNCHANGED <<payEnv, orderVars, reviewVars, fnVars>>

----------------------------------------------------------------------------
(* Inputs *)

\* Generated request texts reach from MinResumeLength - LenMargin to
\* MinResumeLength + LenMargin characters (LLM replies likewise).
LenMargin == 1

\* A vocabulary word occurs up to MaxRepeat times in a generated resume.
MaxRepeat == 2

\* Texts given to cleanAIResponse have up to MaxTextLen characters.
MaxTextLen == 6

Wraps == {<<>>, <<" ", "\n">>}

Wrap(t, w) == w \o t \o w

rcPlain ==
  <<"C", "u", "r", "r", "i", "c", "u", "l", "u", "m", " ", "v", "i", "t", "a", "e">>

rcSections ==
  <<"E", "x", "p", "e", "r", "i", "e", "n", "c", "e", "\n", "S", "k", "i", "l",
    "l", "s", ":", " ", "L", "e", "d", " ", "t", "e", "a", "m", "s">>

jdSections ==
  <<"S", "k", "i", "l", "l", "s", ",", " ", "E", "d", "u", "c", "a", "t", "i", "o",
    "n", " ", "&", " ", "E", "X", "P", "E", "R", "I", "E", "N", "C", "E">>

jdEight ==
  <<"M", "a", "n", "a", "g", "e", "d", " ", "t", "e", "a", "m", "s", ";", " ", "d",
    "e", "v", "e", "l", "o", "p", "e", "d", ",", " ", "c", "r", "e", "a", "t", "e",
    "d", " ", "a", "n", "d", " ", "a", "c", "h", "i", "e", "v", "e", "d", ":", " ",
    "J", "a", "v", "a", " ", "p", "y", "t", "h", "o", "n", " ", "s", "q", "l", " ",
    "j", "a", "v", "a", "8", " ", "r", "u", "s", "t", "_", "l", "a", "n", "g", " ",
    "g", "o", "l", "a", "n", "g">>

\* MaxKeywords distinct keywords, the first of them once more in capitals,
\* and two further keywords after them
jdMany ==
  Concat([i \in 1..MaxKeywords |->
            <<"k", LowerAlpha[i], LowerAlpha[i], LowerAlpha[i], " ">>])
  \o <<"K", "A", "A", "A", ",", " ", "m", "a", "n", "a", "g", "e", "d", " ",
       "e", "x", "p", "e", "r", "i", "e", "n", "c", "e">>

jdNoKeyword == <<" ", "g", "o", " ", "c", "+", "+", " ", "4", "2", " ">>

\* A text of exactly len characters that starts with core and ends in a letter
ResumeText(core, len) == core \o Cyc(<<" ", "q">>, len - Len(core) - 1) \o <<"q">>

NearLengths(n) == (n - LenMargin)..(n + LenMargin)

ApiKeys == {Absent, Given(<<>>), Given(<<" ">>), Given(<<" ", "s", "k", "-", "1", "\n">>)}

ReviewResumes ==
  {Absent, Given(<<>>)} \cup
  {Given(Wrap(ResumeText(core, len), w)) :
     core \in {rcPlain, rcSections}, len \in NearLengths(MinResumeLength), w \in Wraps}

ReviewJds == {Absent, Given(<<>>), Given(jdSections), Given(jdNoKeyword)}

Bodies == [resume : ReviewResumes, jd : ReviewJds]

ReplyUnits ==
  {Separator,
   <<"-", "-", "-", " ">>,
   <<"*", "*", "O", "k", "*", "*", " ">>,
   <<"-", " ", "a", "b", "\n">>}

\* data?.choices?.[0]?.message?.content of the replies the LLM may give
LlmDatas ==
  {Absent, Given(<<>>)} \cup
  {Given(Wrap(Cyc(unit, len), w)) :
     unit \in ReplyUnits, len \in NearLengths(MinContentLength), w \in Wraps}

sectionWords == <<
  <<"E", "x", "p", "e", "r", "i", "e", "n", "c", "e">>,
  <<"E", "d", "u", "c", "a", "t", "i", "o", "n">>,
  <<"S", "k", "i", "l", "l", "s">> >>

UpperOf == [c \in LowerSet |-> UpperAlpha[CHOOSE i \in 1..26 : LowerAlpha[i] = c]]

toUpperCase(s) == [i \in 1..Len(s) |-> IF s[i] \in LowerSet THEN UpperOf[s[i]] ELSE s[i]]

\* A resume of the section words in secs, the first k action verbs, each rep
\* times (every second round in capitals), and pad filler words.
ScoreResume(secs, k, rep, pad) ==
  Concat([i \in 1..3 |-> IF i \in secs THEN sectionWords[i] \o <<"\n">> ELSE <<>>])
  \o Concat([j \in 1..(k * rep) |->
               LET verb == actionVerbs[((j - 1) % k) + 1]
               IN (IF ((j - 1) \div k) % 2 = 1 THEN toUpperCase(verb) ELSE verb) \o <<" ">>])
  \o Cyc(<<"q", " ">>, 2 * pad)

ScoreJds ==
  {Absent, Given(<<>>), Given(jdSections), Given(jdEight), Given(jdNoKeyword),
   Given(jdMany)}

\* Short resumes over the whole vocabulary
RichInputs ==
  {[resume |-> ScoreResume(secs, k, rep, 0), jd |-> jd] :
     secs \in SUBSET (1..3), k \in 0..Len(actionVerbs), rep \in 1..MaxRepeat,
     jd \in ScoreJds}

\* Resumes of a word count at each edge of the word count bands
BandInputs ==
  {[resume |-> ScoreResume(secs, k, 1, words - Cardinality(secs) - k), jd |-> jd] :
     secs \in SUBSET (1..3), k \in {0, 1, Len(actionVerbs)},
     words \in {LowBand - 1, LowBand, HighBand, HighBand + 1},
     jd \in {Absent, Given(jdSections)}}

ScoreInputs == RichInputs \cup BandInputs

CleanAlphabet == {"-", " ", "*", "a"}

CleanInputs == UNION {[1..n -> CleanAlphabet] : n \in 0..MaxTextLen}

PayEnvs ==
  {[merchantId |-> Absent, saltKey |-> Absent, baseUrl |-> Absent],
   [merchantId |-> Given(<<"M", "1">>), saltKey |-> Given(<<"s", "4", "l", "t">>),
    baseUrl |-> Given(<<"h", "t", "t", "p", "s", ":", "/", "/", "g", "w">>)]}

Amounts == {Absent, Given(1), Given(100), Given(499), Given(2500)}

OrderIds == {Absent, Given(<<"O", "R", "D", "-", "7">>), Given(<<"a", "\"", "b">>)}

OrderBodies == [amount : Amounts, orderId : OrderIds]

GatewayDatas ==
  {"{\"success\":true,\"code\":\"PAYMENT_INITIATED\"}",
   "{\"success\":false,\"code\":\"INTERNAL_SERVER_ERROR\"}"}

GatewayErrors ==
  {[kind |-> "httpError", data |-> "{\"success\":false,\"code\":\"BAD_REQUEST\"}"],
   [kind |-> "httpError", data |-> "{\"success\":false,\"code\":\"AUTHORIZATION_FAILED\"}"],
   [kind |-> "transport", data |-> "ECONNREFUSED"]}

WebhookBodies ==
  {Absent} \cup
  {Given(b) : b \in [code : {Absent, Given("PAYMENT_SUCCESS"), Given("PAYMENT_ERROR")},
                     success : {Absent, Given(TRUE), Given(FALSE)}]}


----------------------------------------------------------------------------
(* Specifications *)

ReviewIdle ==
  /\ pc = [r \in Reqs |-> "idle"]
  /\ body = [r \in Reqs |-> [resume |-> Absent, jd |-> Absent]]
  /\ atsScore = [r \in Reqs |-> Absent]
  /\ scoreCalls = [r \in Reqs |-> 0]
  /\ llmCalls = [r \in Reqs |-> 0]
  /\ llmReply = [r \in Reqs |-> NoReply]
  /\ aiReviewRaw = [r \in Reqs |-> Absent]
  /\ response = [r \in Reqs |-> NoResponse]
  /\ prompt = [r \in Reqs |-> NoPrompt]
  /\ sent = [r \in Reqs |-> 0]

\* Requests and replies of the concurrent service
ConcBodies ==
  {[resume |-> Absent, jd |-> Absent],
   [resume |-> Given(ResumeText(rcPlain, MinResumeLength)), jd |-> Absent],
   [resume |-> Given(ResumeText(rcSections, MinResumeLength)), jd |-> Given(jdSections)]}

ConcDatas ==
  {Absent,
   Given(Cyc(<<"*", "*", "O", "k", "*", "*", " ">>, MinContentLength + 1)),
   Given(Cyc(<<"-", " ", "a", "b", "\n">>, MinContentLength + 1))}

ConcOrders == {[amount |-> Given(100), orderId |-> Given(<<"O", "R", "D", "-", "7">>)]}

OrderIdle ==
  /\ ordPc = "idle"
  /\ ordBody = [amount |-> Absent, orderId |-> Absent]
  /\ ordRequest = NoRequest
  /\ gatewayCalls = 0
  /\ gatewayReply = NoReply
  /\ ordResponse = NoResponse
  /\ ordSent = 0

\* The payment routes at rest, with no credential configured
NoPay ==
  /\ payEnv = [merchantId |-> Absent, saltKey |-> Absent, baseUrl |-> Absent]
  /\ OrderIdle
  /\ webhooks = <<>>

NoFn ==
  /\ fnArgs = <<>>
  /\ fnResult = Absent
  /\ fnTrace = <<>>

\* The service with one request: the process starts with its environment.
Init ==
  /\ apiKey \in ApiKeys
  /\ ReviewIdle
  /\ NoPay
  /\ NoFn

Next ==
  \E r \in {"r1"} :
    \/ \E b \in Bodies : Receive(r, b)
    \/ FetchReject(r)
    \/ \E ok \in BOOLEAN : FetchResolve(r, ok)
    \/ ErrorJsonSettle(r)
    \/ JsonReject(r)
    \/ \E data \in LlmDatas : JsonResolve(r, data)

Spec == Init /\ [][Next]_vars

\* calculateATSMatchScore applied as line 213 applies it, to any text.
InitScore ==
  /\ apiKey = Absent
  /\ ReviewIdle
  /\ NoPay
  /\ fnArgs \in ScoreInputs
  /\ fnResult = Absent
  /\ fnTrace = <<>>

ApplyScore ==
  /\ fnResult = Absent
  /\ fnResult' = Given(calculateATSMatchScore(fnArgs.resume, orEmpty(fnArgs.jd)))
  /\ fnTrace' = scoreSteps(fnArgs.resume, orEmpty(fnArgs.jd))
  /\ UNCHANGED <<fnArgs, reviewVars, payVars>>

SpecScore == InitScore /\ [][ApplyScore]_vars

\* cleanAIResponse applied to any text.
InitClean ==
  /\ apiKey = Absent
  /\ ReviewIdle
  /\ NoPay
  /\ fnArgs \in CleanInputs
  /\ fnResult = Absent
  /\ fnTrace = <<>>

ApplyClean ==
  /\ fnResult = Absent
  /\ fnResult' = Given(cleanAIResponse(fnArgs))
  /\ UNCHANGED <<fnArgs, fnTrace, reviewVars, payVars>>

SpecClean == InitClean /\ [][ApplyClean]_vars

\* POST /api/create-order with one order request
InitPay ==
  /\ apiKey = Absent
  /\ ReviewIdle
  /\ NoFn
  /\ payEnv \in PayEnvs
  /\ OrderIdle
  /\ webhooks = <<>>

NextPay ==
  \/ \E b \in OrderBodies : OrderReceive(b)
  \/ \E data \in GatewayDatas : GatewayResolve(data)
  \/ \E err \in GatewayErrors : GatewayReject(err)

SpecPay == InitPay /\ [][NextPay]_vars

\* The service under load: two review requests and an order request in
\* flight together, their handlers interleaved at every await.  A pending
\* outbound call settles in the end (it resolves or it fails); nothing is
\* assumed about requests arriving.
InitConc ==
  /\ apiKey \in ApiKeys
  /\ ReviewIdle
  /\ NoFn
  /\ payEnv \in PayEnvs
  /\ OrderIdle
  /\ webhooks = <<>>

FetchSettle(r) == (\E ok \in BOOLEAN : FetchResolve(r, ok)) \/ FetchReject(r)

JsonSettle(r) == JsonReject(r) \/ \E data \in ConcDatas : JsonResolve(r, data)

GatewaySettle ==
  \/ \E data \in GatewayDatas : GatewayResolve(data)
  \/ \E err \in GatewayErrors : GatewayReject(err)

NextConc ==
  \/ \E r \in Reqs, b \in ConcBodies : Receive(r, b)
  \/ \E r \in Reqs : FetchSettle(r)
  \/ \E r \in Reqs : ErrorJsonSettle(r)
  \/ \E r \in Reqs : JsonSettle(r)
  \/ \E b \in ConcOrders : OrderReceive(b)
  \/ GatewaySettle

SpecConc ==
  /\ InitConc
  /\ [][NextConc]_vars
  /\ \A r \in Reqs : /\ WF_vars(FetchSettle(r))
                      /\ WF_vars(ErrorJsonSettle(r))
                      /\ WF_vars(JsonSettle(r))
  /\ WF_vars(GatewaySettle)

\* POST /webhook/phonepe with the gateway's callbacks, one after the other
InitWebhook ==
  /\ apiKey = Absent
  /\ ReviewIdle
  /\ NoPay
  /\ NoFn

NextWebhook == \E b \in WebhookBodies, threw \in BOOLEAN : Webhook(b, threw)

SpecWebhook == InitWebhook /\ [][NextWebhook]_vars

----------------------------------------------------------------------------
(* Properties *)

Done(r) == pc[r] = "done"

\* The request's resume is a text of at least 50 characters once trimmed.
Accepted(r) ==
  body[r].resume # Absent /\ Len(trim(body[r].resume[1])) >= 50

\* C1: for every resume text and every job description text, the empty ones
\* included, calculateATSMatchScore returns an integer from 0 to 100.
C1_ScoreInRange ==
  fnResult # Absent => fnResult[1] \in 0..100

\* The bonuses stack to the top of the range: the score is 100.
C1_Witness ==
  /\ fnResult = Given(100)
  /\ fnTrace.jd = 2 * 100

\* C2: a request whose resume is missing or shorter than 50 characters once
\* trimmed is answered 400 {ok:false, error} and neither the scoring function
\* nor the LLM request is ever invoked for it; a resume of exactly 50
\* characters once trimmed is accepted.
C2_ShortResumeRejected ==
  \A r \in Reqs :
    pc[r] # "idle" =>
      /\ ~Accepted(r) =>
           /\ Done(r)
           /\ response[r].status = 400
           /\ response[r].ok = FALSE
           /\ "error" \in DOMAIN response[r]
           /\ scoreCalls[r] = 0
           /\ llmCalls[r] = 0
           /\ atsScore[r] = Absent
      /\ (Accepted(r) /\ Len(trim(body[r].resume[1])) = 50) =>
           /\ scoreCalls[r] = 1
           /\ response[r].status # 400

\* A resume of 50 characters or more that trims to 49 has been rejected.
C2_Witness ==
  \E r \in Reqs :
    /\ Done(r)
    /\ body[r].resume # Absent
    /\ Len(body[r].resume[1]) >= 50
    /\ Len(trim(body[r].resume[1])) = 49
    /\ response[r].status = 400

\* The LLM call of request r has failed in one of the ways of the claim.
LlmFailed(r) ==
  \/ apiKey = Absent
  \/ trim(apiKey[1]) = <<>>
  \/ llmReply[r].kind \in {"rejected", "httpError", "unparsable"}
  \/ /\ llmReply[r].kind = "json"
     /\ \/ llmReply[r].data = Absent
        \/ Len(trim(llmReply[r].data[1])) < 50

\* C3: for an accepted request, whichever way the LLM call fails, callAI
\* returns (it does not throw) and the response is {ok:true, atsScore,
\* aiReview} with the fallback apology as aiReview and the score of the
\* request's resume and job description as atsScore.
C3_LlmFailureDegrades ==
  \A r \in Reqs :
    (Done(r) /\ Accepted(r) /\ LlmFailed(r)) =>
      /\ aiReviewRaw[r] = Given(FALLBACK)
      /\ response[r] =
           [status |-> 200, ok |-> TRUE,
            atsScore |-> calculateATSMatchScore(body[r].resume[1], orEmpty(body[r].jd)),
            aiReview |-> FALLBACK]

\* The LLM replied 50 characters or more that trim to fewer than 50.
C3_Witness ==
  \E r \in Reqs :
    /\ Done(r)
    /\ Accepted(r)
    /\ llmReply[r].kind = "json"
    /\ llmReply[r].data # Absent
    /\ Len(llmReply[r].data[1]) >= 50
    /\ Len(trim(llmReply[r].data[1])) < 50
    /\ response[r].status = 200

\* C4: in every success response of POST /api/review the aiReview field is a
\* non-empty string, whatever the LLM replied and however it failed.
C4_AiReviewNonEmpty ==
  \A r \in Reqs :
    response[r].status = 200 => response[r].aiReview # <<>>

\* The arguments and the result of the scoring function's application
argResume == fnArgs.resume

argJd == orEmpty(fnArgs.jd)

Scored == fnResult # Absent

NoSection(resume) ==
  LET lower == toLowerCase(resume)
  IN /\ ~includes(lower, kwExperience)
     /\ ~includes(lower, kwEducation)
     /\ ~includes(lower, kwSkill)

\* The verbs of the vocabulary that occur in the resume, by their index
DistinctVerbs(resume) ==
  LET lower == toLowerCase(resume)
  IN {i \in 1..Len(actionVerbs) : includes(lower, actionVerbs[i])}

\* What each step added to `score`, in half points
BandPart(t) == t.words - t.base

SectionPart(t) == t.sections - t.words

VerbPart(t) == t.verbs - t.sections

JdPart(t) == t.jd - t.verbs

\* The resume with the given words added at its end
WithWords(resume, words) ==
  resume \o Concat([i \in 1..Len(words) |-> <<" ">> \o words[i]])

\* Adding the words raises the score by delta whenever it leaves the word
\* count band, the action verbs and the job description term as they were.
RaisesBy(words, delta) ==
  LET longer == WithWords(argResume, words)
      t == scoreSteps(longer, argJd)
  IN (BandPart(t) = BandPart(fnTrace) /\ VerbPart(t) = VerbPart(fnTrace)
      /\ JdPart(t) = JdPart(fnTrace))
     => calculateATSMatchScore(longer, argJd) = fnResult[1] + delta

\* C5: in a resume with none of "experience", "education", "skill", adding
\* "Experience" raises the score by exactly 10, "Education" by 5, "Skills" or
\* "skill" or both by 10, and all three by 25, the word count band, the
\* action verbs and the job description term being unchanged.
C5_SectionBonuses ==
  (Scored /\ NoSection(argResume)) =>
    /\ RaisesBy(<<sectionWords[1]>>, 10)
    /\ RaisesBy(<<sectionWords[2]>>, 5)
    /\ RaisesBy(<<sectionWords[3]>>, 10)
    /\ RaisesBy(<<kwSkill>>, 10)
    /\ RaisesBy(<<kwSkill, sectionWords[3]>>, 10)
    /\ RaisesBy(<<sectionWords[1], sectionWords[2], sectionWords[3]>>, 25)

\* A resume with verbs and no section word, scored with a job description
\* whose term the three section words leave unchanged.
C5_Witness ==
  /\ Scored
  /\ NoSection(argResume)
  /\ DistinctVerbs(argResume) # {}
  /\ LET t == scoreSteps(WithWords(argResume, sectionWords), argJd)
     IN /\ BandPart(t) = BandPart(fnTrace)
        /\ VerbPart(t) = VerbPart(fnTrace)
        /\ JdPart(t) = JdPart(fnTrace)
        /\ SectionPart(t) = 2 * 25

\* C6: the action verb step adds 1.5 times the number of distinct verbs of
\* the vocabulary that occur in the lower-cased resume: repeating verbs adds
\* nothing, the step adds at most 15, and exactly 15 when all ten occur.
C6_DistinctVerbs ==
  Scored =>
    LET d == Cardinality(DistinctVerbs(argResume))
    IN /\ VerbPart(fnTrace) = 3 * d
       /\ VerbPart(fnTrace) <= 2 * 15
       /\ (d = 10 => VerbPart(fnTrace) = 2 * 15)
       /\ VerbPart(scoreSteps(argResume \o <<" ">> \o argResume, argJd)) = VerbPart(fnTrace)

\* All ten verbs occur, the first of them twice.
C6_Witness ==
  /\ Scored
  /\ Cardinality(DistinctVerbs(argResume)) = 10
  /\ Cardinality({i \in 0..(Len(argResume) - 7) :
                    SubSeq(toLowerCase(argResume), i + 1, i + 7) = actionVerbs[1]}) >= 2
  /\ VerbPart(fnTrace) = 2 * 15

\* The keywords of the job description that occur in the lower-cased resume
Hits(resume, jd) ==
  LET keywords == jdKeywords(jd)
      lower == toLowerCase(resume)
  IN {i \in 1..Len(keywords) : includes(lower, keywords[i])}

\* C7: with a job description of at least one keyword the job description
\* step adds round(hits / keywords * 20): 20 when every keyword occurs in the
\* resume, 0 when none does; with no job description it adds a flat 10.
C7_JdTerm ==
  Scored =>
    LET n == Len(jdKeywords(argJd))
        h == Cardinality(Hits(argResume, argJd))
    IN /\ n > 0 =>
            /\ JdPart(fnTrace) = 2 * MathRound(h * 20, n)
            /\ (h = n => JdPart(fnTrace) = 2 * 20)
            /\ (h = 0 => JdPart(fnTrace) = 0)
       /\ fnArgs.jd = Absent => JdPart(fnTrace) = 2 * 10

\* One keyword of eight occurs: 2.5 is rounded to 3.
C7_Witness ==
  /\ Scored
  /\ Len(jdKeywords(argJd)) = 8
  /\ Cardinality(Hits(argResume, argJd)) = 1
  /\ JdPart(fnTrace) = 2 * 3

\* The resume with one more word
OneMoreWord(resume) == resume \o <<" ", "q">>

\* A scored resume of 249 words with no section word and no action verb,
\* with no job description, and the same resume with one more word.
AtLowEdge ==
  /\ Scored
  /\ fnArgs.jd = Absent
  /\ NoSection(argResume)
  /\ DistinctVerbs(argResume) = {}
  /\ wordCount(argResume) = 249
  /\ wordCount(OneMoreWord(argResume)) = 250

\* C8, as claimed: the resume of 249 words scores exactly 5 points lower
\* than the resume of 250 words.
C8_Claimed ==
  AtLowEdge =>
    calculateATSMatchScore(OneMoreWord(argResume), argJd) - fnResult[1] = 5

\* C8, amended: the resume of 249 words scores exactly 15 points lower than
\* the resume of 250 words (the band bonus goes from 5 to 20).
C8_LowEdge ==
  AtLowEdge =>
    calculateATSMatchScore(OneMoreWord(argResume), argJd) - fnResult[1] = 15

C8_Witness == AtLowEdge /\ fnResult[1] = 35

\* C9: of two resumes with the same sections, verbs and job description term
\* the one of 701 words scores exactly 10 points lower than the one of 700
\* words; 700 words are still in the +20 band.
C9_HighEdge ==
  (Scored /\ wordCount(argResume) = 700) =>
    LET longer == OneMoreWord(argResume)
        t == scoreSteps(longer, argJd)
    IN /\ BandPart(fnTrace) = 2 * 20
       /\ (wordCount(longer) = 701 /\ SectionPart(t) = SectionPart(fnTrace)
           /\ VerbPart(t) = VerbPart(fnTrace) /\ JdPart(t) = JdPart(fnTrace))
          => /\ BandPart(t) = 2 * 10
             /\ calculateATSMatchScore(longer, argJd) = fnResult[1] - 10

\* A resume of 700 words with section words and an odd number of verbs.
C9_Witness ==
  /\ Scored
  /\ wordCount(argResume) = 700
  /\ wordCount(OneMoreWord(argResume)) = 701
  /\ SectionPart(fnTrace) > 0
  /\ Cardinality(DistinctVerbs(argResume)) = 1

\* The characters of a text that are neither dashes nor white space
Others(text) == SelectSeq(text, LAMBDA c : c # "-" /\ c \notin WhiteSpace)

Dashes(text) == Len(SelectSeq(text, LAMBDA c : c = "-"))

NoOuterSpace(text) ==
  text = <<>> \/ (text[1] \notin WhiteSpace /\ text[Len(text)] \notin WhiteSpace)

\* C10: cleanAIResponse deletes every --- and trims: its output contains no
\* ---, neither starts nor ends with white space, keeps every other character
\* in order (a text with no --- and no outer white space comes back as it
\* is), and cleaning it again changes nothing.
C10_CleanAIResponse ==
  (fnResult # Absent /\ fnTrace = <<>> /\ fnArgs \in CleanInputs) =>
    LET out == fnResult[1]
    IN /\ ~includes(out, Separator)
       /\ NoOuterSpace(out)
       /\ Others(out) = Others(fnArgs)
       /\ Dashes(out) <= Dashes(fnArgs)
       /\ (Dashes(fnArgs) - Dashes(out)) % 3 = 0
       /\ (~includes(fnArgs, Separator) /\ NoOuterSpace(fnArgs)) => out = fnArgs
       /\ cleanAIResponse(out) = out

\* A text that starts with white space and holds a separator, a bold marker
\* and a list dash: the marker and the dash are kept.
C10_Witness ==
  /\ fnResult # Absent
  /\ fnArgs = <<" ", "-", "-", "-", "*", "-">>
  /\ fnResult[1] = <<"*", "-">>

----------------------------------------------------------------------------
(* Properties of the payment routes *)

Base64Index ==
  [c \in {Base64Alphabet[i] : i \in DOMAIN Base64Alphabet} \cup {"="} |->
     IF c = "=" THEN 0
     ELSE (CHOOSE i \in DOMAIN Base64Alphabet : Base64Alphabet[i] = c) - 1]

\* The text a base64 string decodes to
fromBase64(text) ==
  LET len == Len(text)
      pad == Cardinality({i \in (len - 1)..len : i >= 1 /\ text[i] = "="})
      byte(j) ==
        LET g == (j - 1) \div 3
            k == (j - 1) % 3
            v == Base64Index[text[4 * g + 1]] * 262144
                   + Base64Index[text[4 * g + 2]] * 4096
                   + Base64Index[text[4 * g + 3]] * 64
                   + Base64Index[text[4 * g + 4]]
        IN (v \div (256 ^ (2 - k))) % 256
  IN [j \in 1..(3 * (len \div 4) - pad) |-> AsciiPrintable[byte(j) - FirstCode + 1]]

OrderSent == ordPc # "idle"

\* The JSON text the gateway decodes from the request body it received
SentPayloadText == fromBase64(ordRequest.data.request)

TransactionIdField ==
  <<"\"", "m", "e", "r", "c", "h", "a", "n", "t", "T", "r", "a", "n", "s",
    "a", "c", "t", "i", "o", "n", "I", "d", "\"", ":", "\"">>

AmountField ==
  <<"\"", "a", "m", "o", "u", "n", "t", "\"", ":">>

PayEndpoint ==
  <<"/", "p", "g", "/", "v", "1", "/", "p", "a", "y">>

VerifySuffix ==
  <<"#", "#", "#", "1">>

\* C11: when the caller supplied no orderId, the payload sent to the gateway
\* still has a merchantTransactionId, a string that is not empty.
C11_TransactionIdGenerated ==
  (OrderSent /\ ordBody.orderId = Absent) =>
    /\ includes(SentPayloadText, TransactionIdField)
    /\ ~includes(SentPayloadText, TransactionIdField \o <<"\"">>)

\* C12: the body sent to the gateway decodes to a JSON text whose amount is
\* the request's amount times 100, and X-VERIFY is the hex SHA-256 of that
\* very base64 body followed by "/pg/v1/pay" and the shared secret, with
\* "###1" appended.
C12_PayloadAndChecksum ==
  OrderSent =>
    /\ ordBody.amount # Absent =>
         includes(SentPayloadText,
                  AmountField \o numberText(ordBody.amount[1] * 100) \o <<",">>)
    /\ payEnv.saltKey # Absent =>
         ordRequest.headers.xVerify =
           [digest |-> sha256hex(ordRequest.data.request \o PayEndpoint
                                   \o payEnv.saltKey[1]),
            suffix |-> VerifySuffix]

C12_Witness ==
  /\ OrderSent
  /\ ordBody.amount = Given(100)
  /\ payEnv.saltKey # Absent
  /\ includes(SentPayloadText, AmountField \o <<"1", "0", "0", "0", "0", ",">>)

GatewayFailed == ordPc = "done" /\ gatewayReply.kind \in {"httpError", "transport"}

\* C13: a failed gateway call is answered 500 with exactly the fixed body
\* {"error":"Order create failed"}, whatever the gateway's error said; a
\* successful one is answered with the gateway's body as it came.
C13_OrderResponses ==
  /\ GatewayFailed =>
       /\ ordResponse = [status |-> 500, json |-> "{\"error\":\"Order create failed\"}"]
       /\ ordResponse.json # gatewayReply.data
  /\ (ordPc = "done" /\ gatewayReply.kind = "ok") =>
       ordResponse = [status |-> 200, json |-> gatewayReply.data]

C13_Witness ==
  /\ GatewayFailed
  /\ gatewayReply.kind = "httpError"
  /\ ordResponse.status = 500

\* C14: every callback, whatever its payload, gets exactly one response:
\* 200 "OK" unless handling threw, and 500 "FAIL" only when it threw.
C14_WebhookAnswers ==
  \A i \in DOMAIN webhooks :
    LET w == webhooks[i]
    IN /\ Len(w.responses) = 1
       /\ w.responses[1] = IF w.threw THEN [status |-> 500, text |-> "FAIL"]
                                       ELSE [status |-> 200, text |-> "OK"]

C14_Witness ==
  /\ Len(webhooks) = 2
  /\ webhooks[1].body = Absent /\ ~webhooks[1].threw
  /\ webhooks[1].responses = <<[status |-> 200, text |-> "OK"]>>
  /\ webhooks[2].body = Given([code |-> Given("PAYMENT_ERROR"), success |-> Given(FALSE)])
  /\ ~webhooks[2].threw /\ ~webhooks[2].unlock
  /\ webhooks[2].responses = <<[status |-> 200, text |-> "OK"]>>

----------------------------------------------------------------------------
(* Properties of the service under load *)

Pending(r) == pc[r] \in {"fetch", "json", "errorJson"}

NoLlmNeeded(r) == resumeRejected(body[r].resume) \/ missingApiKey(apiKey)

CallFailed(r) == llmReply[r].kind \in {"rejected", "httpError", "unparsable"}

AtMostOneOutbound ==
  /\ \A r \in Reqs :
       /\ llmCalls[r] <= 1
       /\ sent[r] <= 1
       /\ Done(r) <=> sent[r] = 1
       /\ (Done(r) /\ NoLlmNeeded(r)) => llmCalls[r] = 0
       /\ (Done(r) /\ CallFailed(r)) => llmCalls[r] = 1
  /\ gatewayCalls <= 1
  /\ ordSent <= 1
  /\ ordPc = "done" <=> ordSent = 1
  /\ GatewayFailed => gatewayCalls = 1

\* C15: a review request issues at most one LLM request and an order request
\* at most one gateway request, also when the call fails; a rejected review
\* request and one handled without a credential issue none; and a request
\* whose outbound call is pending gets its one response once the call has
\* resolved or failed.
C15_OneCallOneResponse ==
  /\ []AtMostOneOutbound
  /\ \A r \in Reqs : Pending(r) ~> (Done(r) /\ sent[r] = 1)
  /\ (ordPc = "post") ~> (ordPc = "done" /\ ordSent = 1)

C15_Witness ==
  /\ Done("r1") /\ CallFailed("r1") /\ llmCalls["r1"] = 1 /\ sent["r1"] = 1
  /\ Done("r2") /\ NoLlmNeeded("r2") /\ llmCalls["r2"] = 0 /\ sent["r2"] = 1
  /\ GatewayFailed /\ gatewayCalls = 1 /\ ordSent = 1

\* What callAI returns for the reply the LLM gave to the fetch of request r
OwnReview(r) ==
  IF llmReply[r].kind = "json" THEN contentOrFallback(llmReply[r].data) ELSE FALLBACK

OwnResults(r) ==
  (Done(r) /\ Accepted(r)) =>
    /\ response[r].status = 200
    /\ response[r].atsScore =
         calculateATSMatchScore(body[r].resume[1], orEmpty(body[r].jd))
    /\ prompt[r].userContent = userContent(body[r].resume[1], orEmpty(body[r].jd))
    /\ response[r].aiReview = cleanAIResponse(OwnReview(r))

\* A step in which request r takes no part leaves everything of r as it was.
Untouched(r) ==
  pc'[r] = pc[r] =>
    /\ response'[r] = response[r]
    /\ atsScore'[r] = atsScore[r]
    /\ aiReviewRaw'[r] = aiReviewRaw[r]
    /\ prompt'[r] = prompt[r]
    /\ body'[r] = body[r]

\* C17: however the handlers of concurrent review requests interleave, each
\* response carries the score of its own resume and job description and the
\* review derived from the LLM reply to its own prompt, and no step of one
\* request changes anything of another.
C17_OwnResultsUnderInterleaving ==
  /\ [](\A r \in Reqs : OwnResults(r))
  /\ [][\A r \in Reqs : Untouched(r)]_vars

C17_Witness ==
  /\ \A r \in Reqs : Done(r) /\ Accepted(r) /\ llmReply[r].kind = "json"
  /\ response["r1"].atsScore # response["r2"].atsScore
  /\ response["r1"].aiReview # response["r2"].aiReview
  /\ response["r1"].aiReview # FALLBACK

----------------------------------------------------------------------------
(* Properties of the prompt *)

Fence == <<Backtick, Backtick, Backtick>>

JdHeading ==
  <<"*", "*", "J", "o", "b", " ", "D", "e", "s", "c", "r", "i", "p", "t",
    "i", "o", "n", ":", "*", "*">>

AgainstJd ==
  <<" ", "a", "g", "a", "i", "n", "s", "t", " ", "t", "h", "e", " ", "p",
    "r", "o", "v", "i", "d", "e", "d", " ", "j", "o", "b", " ", "d", "e",
    "s", "c", "r", "i", "p", "t", "i", "o", "n">>

EndsWith(s, t) == Len(t) <= Len(s) /\ SubSeq(s, Len(s) - Len(t) + 1, Len(s)) = t

\* C16: the system prompt is the same for every request; the user content
\* holds the resume as received between two fence lines; the words
\* " against the provided job description" and the "**Job Description:**"
\* block with the job description as received are there exactly when the
\* job description is not empty, and without one the content ends after the
\* resume block.
C16_PromptShape ==
  \A r \in Reqs :
    prompt[r] # NoPrompt =>
      LET resume == body[r].resume[1]
          jd == orEmpty(body[r].jd)
          u == prompt[r].userContent
      IN /\ prompt[r].systemPrompt = buildImprovedPrompt(<<>>, <<>>).systemPrompt
         /\ includes(u, Fence \o <<"\n">> \o resume \o <<"\n">> \o Fence)
         /\ jd # <<>> =>
              /\ includes(u, AgainstJd)
              /\ includes(u, JdHeading \o <<"\n">> \o Fence \o <<"\n">> \o jd
                               \o <<"\n">> \o Fence)
         /\ (jd = <<>> /\ ~includes(resume, JdHeading) /\ ~includes(resume, AgainstJd)) =>
              /\ ~includes(u, AgainstJd)
              /\ ~includes(u, JdHeading)
              /\ EndsWith(trim(u), resume \o <<"\n">> \o Fence)

C16_Witness ==
  /\ Done("r1") /\ Accepted("r1")
  /\ body["r1"].jd = Given(jdNoKeyword)
  /\ includes(prompt["r1"].userContent, JdHeading)
  /\ includes(prompt["r1"].userContent, jdNoKeyword)

----------------------------------------------------------------------------
(* Properties of the job description keywords and of the final score *)

\* The end of the run of letters a-z that starts at a
LetterRunEnd(s, a) ==
  CHOOSE b \in a..Len(s) :
    /\ \A k \in a..b : s[k] \in LowerSet
    /\ (b = Len(s) \/ s[b + 1] \notin LowerSet)

\* The positions at which a whole word of at least four letters a-z starts:
\* no letter, digit or underscore stands before it or after it.
WholeWordStarts(s) ==
  {a \in 1..Len(s) :
     /\ s[a] \in LowerSet
     /\ (a = 1 \/ ~IsWordChar(s[a - 1]))
     /\ LetterRunEnd(s, a) - a + 1 >= 4
     /\ (LetterRunEnd(s, a) = Len(s) \/ ~IsWordChar(s[LetterRunEnd(s, a) + 1]))}

WordAt(s, a) == SubSeq(s, a, LetterRunEnd(s, a))

\* Where the word w is first seen among the starts (0 when it is not there)
FirstSeen(s, starts, w) ==
  IF \E a \in starts : WordAt(s, a) = w
  THEN CHOOSE a \in starts :
         /\ WordAt(s, a) = w
         /\ \A c \in starts : c < a => WordAt(s, c) # w
  ELSE 0

\* Letters that stand next to a digit or an underscore
NotWholeWords ==
  <<" ", "j", "a", "v", "a", "8", " ", "r", "u", "s", "t", "_", "l", "a",
    "n", "g", " ", "4", "c", "o", "d", "e">>

Managed ==
  <<"m", "a", "n", "a", "g", "e", "d">>

\* C18, as the code has it: the keywords are the whole words of at least four
\* letters a-z of the lower-cased job description, each once, in the order
\* of their first occurrence, the first 25 of them; letters next to a digit
\* or an underscore ("java8") give no keyword; and a word after the 25th
\* keyword does not change the score.
C18_WholeWordKeywords ==
  Scored =>
    LET lower == toLowerCase(argJd)
        K == jdKeywords(argJd)
        starts == WholeWordStarts(lower)
        pos == [n \in 1..Len(K) |-> FirstSeen(lower, starts, K[n])]
        words == {WordAt(lower, a) : a \in starts}
    IN /\ Len(K) <= 25
       /\ \A n \in 1..Len(K) : pos[n] # 0
       /\ \A n \in 1..(Len(K) - 1) : pos[n] < pos[n + 1]
       /\ \A a \in starts :
            \/ \E n \in 1..Len(K) : K[n] = WordAt(lower, a)
            \/ Len(K) = 25 /\ a > pos[25]
       /\ Len(K) = Min(25, Cardinality(words))
       /\ jdKeywords(argJd \o NotWholeWords) = K
       /\ Len(K) = 25 =>
            calculateATSMatchScore(argResume, argJd \o <<" ">> \o Managed) = fnResult[1]

C18_Witness ==
  /\ Scored
  /\ argJd = jdMany
  /\ Len(jdKeywords(argJd)) = 25
  /\ \A n \in 1..25 : jdKeywords(argJd)[n] # Managed
  /\ includes(toLowerCase(argResume), Managed)
  /\ JdPart(fnTrace) = 0

\* C18 as claimed: the keywords are the maximal runs of at least four
\* letters a-z, also those next to a digit or an underscore.
C18_Claimed ==
  Scored =>
    LET lower == toLowerCase(argJd)
        runStarts == SelectSeq(Indices(lower), LAMBDA a :
                       /\ lower[a] \in LowerSet
                       /\ (a = 1 \/ lower[a - 1] \notin LowerSet)
                       /\ LetterRunEnd(lower, a) - a + 1 >= 4)
        runs == [n \in 1..Len(runStarts) |-> WordAt(lower, runStarts[n])]
        firsts == SelectSeq(Indices(runs), LAMBDA i : \A j \in 1..(i - 1) : runs[j] # runs[i])
    IN jdKeywords(argJd) = [n \in 1..Min(25, Len(firsts)) |-> runs[firsts[n]]]

\* C19: a job description that is given but holds no whole word of four or
\* more letters adds nothing, not the flat 10; the flat 10 is added when no
\* job description is given (none, or the empty text); with a job description
\* given, points come from keywords found in the resume only.
C19_NoKeywordAddsNothing ==
  Scored =>
    /\ (argJd # <<>> /\ WholeWordStarts(toLowerCase(argJd)) = {}) => JdPart(fnTrace) = 0
    /\ argJd = <<>> => JdPart(fnTrace) = 2 * 10
    /\ (argJd # <<>> /\ JdPart(fnTrace) > 0) => Hits(argResume, argJd) # {}

C19_Witness ==
  /\ Scored
  /\ argJd = jdNoKeyword
  /\ JdPart(fnTrace) = 0
  /\ fnResult[1] = 20 + 5

\* C20: the score is 20 + band + sections + ceil(1.5 * distinct verbs) + job
\* description term; it is at least 25 and at most 100 before the clamp, so
\* the clamp changes nothing; an odd number of verbs rounds the half up.
C20_ScoreDecomposition ==
  Scored =>
    LET d == Cardinality(DistinctVerbs(argResume))
    IN /\ fnTrace.jd >= 2 * 25 /\ fnTrace.jd <= 2 * 100
       /\ fnResult[1] >= 25
       /\ VerbPart(fnTrace) = 3 * Min(d, 10)
       /\ fnResult[1] = 20 + (BandPart(fnTrace) \div 2) + (SectionPart(fnTrace) \div 2)
                          + ((3 * Min(d, 10) + 1) \div 2) + (JdPart(fnTrace) \div 2)

C20_Witness ==
  /\ Scored
  /\ Cardinality(DistinctVerbs(argResume)) = 3
  /\ fnTrace.jd = 2 * 25 + 9
  /\ fnResult[1] = 30

====
